---- MODULE Spec2Model ----
(***************************************************************************)
(* State-machine model of chatbot_hybrid.py: the groundwater chatbot.      *)
(*                                                                         *)
(* Strings are sequences of one-character strings, so that substring       *)
(* tests, case conversion, stripping and Python's code-point ordering are  *)
(* computed and not assumed.  Numbers of the dataset (RECHARGE ... STAGE)  *)
(* are held in tenths: 699 stands for 69.9.                                *)
(***************************************************************************)
EXTENDS Integers, Sequences, FiniteSets, TLC

\* ------------------------------------------------------------------ bounds
\* Longest CSV file (in data rows) that Init enumerates.
MaxRows == 3
\* Number of questions typed into the chat box in one session.
MaxQueries == 1
\* Largest stage value (in tenths of a percent) given to stage_category.
MaxStage == 1100

\* ----------------------------------------------------------------- strings
\* The characters used, in code-point order (Python compares str by code point).
Alphabet ==
  << " ", ",", "-", ".",
     "0", "1", "2", "3", "4", "5", "6", "7", "8", "9",
     "A", "B", "C", "D", "E", "F", "G", "H", "I", "J", "K", "L", "M",
     "N", "O", "P", "Q", "R", "S", "T", "U", "V", "W", "X", "Y", "Z",
     "a", "b", "c", "d", "e", "f", "g", "h", "i", "j", "k", "l", "m",
     "n", "o", "p", "q", "r", "s", "t", "u", "v", "w", "x", "y", "z" >>

Chars == {Alphabet[i] : i \in 1..Len(Alphabet)}

Ord[c \in Chars] == CHOOSE i \in 1..Len(Alphabet) : Alphabet[i] = c

Digits == {"0", "1", "2", "3", "4", "5", "6", "7", "8", "9"}

IsUpperChar(c) == Ord[c] >= Ord["A"] /\ Ord[c] <= Ord["Z"]

IsLowerChar(c) == Ord[c] >= Ord["a"] /\ Ord[c] <= Ord["z"]

\* str.upper() and str.lower(), character by character.
upper(s) ==
  [i \in 1..Len(s) |->
     IF IsLowerChar(s[i]) THEN Alphabet[Ord[s[i]] - 26] ELSE s[i]]

lower(s) ==
  [i \in 1..Len(s) |->
     IF IsUpperChar(s[i]) THEN Alphabet[Ord[s[i]] + 26] ELSE s[i]]

\* str.strip(): leading and trailing blanks removed.
RECURSIVE lstrip(_)
lstrip(s) == IF s # <<>> /\ Head(s) = " " THEN lstrip(Tail(s)) ELSE s

RECURSIVE rstrip(_)
rstrip(s) ==
  IF s # <<>> /\ s[Len(s)] = " " THEN rstrip(SubSeq(s, 1, Len(s) - 1)) ELSE s

strip(s) == rstrip(lstrip(s))

\* Python's `t in s` for strings: t occurs in s as a contiguous substring.
\* The empty string occurs in every string.
Contains(s, t) ==
  \E i \in 0..(Len(s) - Len(t)) : SubSeq(s, i + 1, i + Len(t)) = t

\* Python's s < t on strings: lexicographic by code point, a proper prefix first.
RECURSIVE StrLess(_, _)
StrLess(s, t) ==
  IF t = <<>> THEN FALSE
  ELSE IF s = <<>> THEN TRUE
  ELSE IF Head(s) = Head(t) THEN StrLess(Tail(s), Tail(t))
  ELSE Ord[Head(s)] < Ord[Head(t)]

\* Python's None, distinct from every string, the empty one included.
None == << "None" >>

\* Python truthiness of an Optional[str]: None and "" are falsy.
Truthy(x) == x # None /\ x # <<>>

\* ----------------------------------------------------------------- numbers
DigitVal(c) == Ord[c] - Ord["0"]

IsDigits(s) == \A i \in 1..Len(s) : s[i] \in Digits

RECURSIVE NatVal(_)
NatVal(s) ==
  IF s = <<>> THEN 0 ELSE 10 * NatVal(SubSeq(s, 1, Len(s) - 1)) + DigitVal(s[Len(s)])

\* Position of the first "." of s, 0 when there is none.
DotAt(s) ==
  IF \E i \in 1..Len(s) : s[i] = "."
  THEN CHOOSE i \in 1..Len(s) : s[i] = "." /\ \A j \in 1..(i - 1) : s[j] # "."
  ELSE 0

\* Python's float(text) on a decimal literal: blanks stripped, an optional "-",
\* digits with an optional fraction.  The value is kept in tenths; fraction
\* digits after the first are dropped, which no comparison with a whole number
\* (70, 90, 100) notices.  ok = FALSE is ValueError.  The other literals float
\* accepts (a "+" sign, an exponent, "inf", "nan", underscores) are not among
\* the texts enumerated below.
ParseFloat(text) ==
  LET s    == strip(text)
      neg  == s # <<>> /\ Head(s) = "-"
      body == IF neg THEN Tail(s) ELSE s
      dot  == DotAt(body)
      ip   == IF dot = 0 THEN body ELSE SubSeq(body, 1, dot - 1)
      fp   == IF dot = 0 THEN <<>> ELSE SubSeq(body, dot + 1, Len(body))
      good == /\ IsDigits(ip) /\ IsDigits(fp)
              /\ (ip # <<>> \/ fp # <<>>)
      mag  == 10 * NatVal(ip) + (IF fp = <<>> THEN 0 ELSE DigitVal(fp[1]))
  IN  IF good THEN [ok |-> TRUE, v |-> IF neg THEN 0 - mag ELSE mag]
      ELSE [ok |-> FALSE, v |-> 0]

\* pd.to_numeric(cell, errors="coerce").fillna(0): an unparseable or missing
\* cell becomes 0.
to_numeric_fillna(cell) ==
  LET f == ParseFloat(cell) IN IF f.ok THEN f.v ELSE 0

\* ------------------------------------------------------------ the CSV file
\* Data rows a CSV file may hold, as the text of their cells.  The stage
\* field is the column "STAGE (%)".
RawRows ==
  { [district |-> <<"G","U","N","T","U","R">>, state |-> <<"A","P">>,
     year |-> <<"2","0","1","8">>, recharge |-> <<"1","2","0",".","5">>,
     available |-> <<"1","0","0">>, extraction |-> <<"6","5">>,
     stage |-> <<"6","5",".","0">>],
    [district |-> <<"G","U","N","T","U","R">>, state |-> <<"A","P">>,
     year |-> <<"2","0","2","0","-","2","1">>, recharge |-> <<"1","1","0">>,
     available |-> <<"1","0","0">>, extraction |-> <<"9","5">>,
     stage |-> <<"9","5">>],
    [district |-> <<" ","g","u","n","t","u","r">>, state |-> <<"a","p">>,
     year |-> <<"2","0","1","9">>, recharge |-> <<"1","1","5">>,
     available |-> <<"1","0","0">>, extraction |-> <<"7","0">>,
     stage |-> <<"7","0",".","0">>],
    [district |-> <<"P","U","R","I">>, state |-> <<"O","D">>,
     year |-> <<"2","0","2","0">>, recharge |-> <<"8","0">>,
     available |-> <<"7","0">>, extraction |-> <<"7","0">>,
     stage |-> <<"1","0","0">>],
    [district |-> <<" "," ">>, state |-> <<"A","P">>,
     year |-> <<"2","0","1","9">>, recharge |-> <<>>,
     available |-> <<"6","0">>, extraction |-> <<"x">>,
     stage |-> <<"b","a","d">>] }

RECURSIVE SeqsUpTo(_, _)
SeqsUpTo(S, n) ==
  IF n = 0 THEN {<<>>}
  ELSE LET shorter == SeqsUpTo(S, n - 1)
       IN  shorter \cup {Append(t, x) : t \in shorter, x \in S}

\* The file "groundwater_2016-2025_merged.csv" as load_data finds it: absent,
\* present but not parseable as CSV, or a table of data rows (possibly none).
CsvFiles ==
  {[status |-> "missing", rows |-> <<>>], [status |-> "unparseable", rows |-> <<>>]}
    \cup {[status |-> "ok", rows |-> t] : t \in SeqsUpTo(RawRows, MaxRows)}

\* ---------------------------------------------------------------- load_data
\* One DataFrame row after the normalisation of lines 85-98.  The files
\* enumerated carry all seven columns, so the `if col in df.columns` tests
\* pass and YEAR is the text of its cell.
NormalizeRow(r) ==
  [district   |-> upper(strip(r.district)),
   state      |-> upper(strip(r.state)),
   year       |-> r.year,
   recharge   |-> to_numeric_fillna(r.recharge),
   available  |-> to_numeric_fillna(r.available),
   extraction |-> to_numeric_fillna(r.extraction),
   stage      |-> to_numeric_fillna(r.stage)]

\* load_data(): the DataFrame, or the exception that leaves it.  Only
\* FileNotFoundError is caught (and gives the empty DataFrame); what
\* pd.read_csv raises on a file it cannot parse is not.
load_data(file) ==
  CASE file.status = "missing" ->
         [exception |-> "none", df |-> <<>>]
    [] file.status = "unparseable" ->
         [exception |-> "ParserError", df |-> <<>>]
    [] OTHER ->
         [exception |-> "none",
          df |-> [i \in 1..Len(file.rows) |-> NormalizeRow(file.rows[i])]]

\* ------------------------------------------------------------- create_index
\* The descriptor text of a row (lines 116-118), as the tuple of what it prints.
Descriptor(row) ==
  << row.district, row.state, row.year,
     row.recharge, row.available, row.extraction, row.stage >>

\* create_index(df): (model, index, texts, df).  An empty DataFrame builds
\* neither the model nor the index.
create_index(df) ==
  IF df = <<>>
  THEN [model |-> "None", index |-> [built |-> FALSE, ntotal |-> 0],
        texts |-> <<>>, df |-> <<>>]
  ELSE [model |-> "SentenceTransformer",
        index |-> [built |-> TRUE, ntotal |-> Len(df)],
        texts |-> [i \in 1..Len(df) |-> Descriptor(df[i])],
        df |-> df]

\* ----------------------------------------------------------- stage_category
\* A whole number of percent, in tenths.
Percent(n) == 10 * n

\* Values stage_category may be given: a float (possibly NaN), a text, None.
FloatValue(v) == [t |-> "float", nan |-> FALSE, v |-> v, s |-> <<>>]

NaNValue == [t |-> "float", nan |-> TRUE, v |-> 0, s |-> <<>>]

StrValue(s) == [t |-> "str", nan |-> FALSE, v |-> 0, s |-> s]

NoneValue == [t |-> "None", nan |-> FALSE, v |-> 0, s |-> <<>>]

\* Python's float(x): ok = FALSE is the ValueError or TypeError of line 132.
float(x) ==
  CASE x.t = "float" -> [ok |-> TRUE, nan |-> x.nan, v |-> x.v]
    [] x.t = "str"   -> [ok |-> ParseFloat(x.s).ok, nan |-> FALSE, v |-> ParseFloat(x.s).v]
    [] OTHER         -> [ok |-> FALSE, nan |-> FALSE, v |-> 0]

\* Mutant: the first threshold test written <= instead of <.
stage_category_le(stage) ==
  LET f == float(stage)
  IN  IF ~f.ok THEN "Unknown"
      ELSE IF ~f.nan /\ f.v <= Percent(70) THEN "Safe"
      ELSE IF ~f.nan /\ f.v < Percent(90) THEN "Semi-Critical"
      ELSE IF ~f.nan /\ f.v < Percent(100) THEN "Critical"
      ELSE "Over-Exploited"

\* stage_category(stage).  Every comparison with NaN is false.
stage_category(stage) ==
  LET f == float(stage)
  IN  IF ~f.ok THEN "Unknown"
      ELSE IF ~f.nan /\ f.v < Percent(70) THEN "Safe"
      ELSE IF ~f.nan /\ f.v < Percent(90) THEN "Semi-Critical"
      ELSE IF ~f.nan /\ f.v < Percent(100) THEN "Critical"
      ELSE "Over-Exploited"

\* ---------------------------------------------------------------- basic_chat
GreetingReply == "Hello! I can give you groundwater info for any district."

WellbeingReply == "I'm flowing great - always ready to talk about groundwater."

GratitudeReply == "You're welcome! Glad I could help."

\* basic_chat's `return None`, as a text no reply has.
NoBasic == "None"

\* basic_chat(query): the canned reply, or NoBasic.
basic_chat(query) ==
  LET q == lower(query)
  IN  IF \E greet \in {<<"h","i">>, <<"h","e","l","l","o">>, <<"h","e","y">>} :
            Contains(q, greet)
      THEN GreetingReply
      ELSE IF Contains(q, <<"h","o","w"," ","a","r","e"," ","y","o","u">>)
      THEN WellbeingReply
      ELSE IF Contains(q, <<"t","h","a","n","k">>)
      THEN GratitudeReply
      ELSE NoBasic

\* ------------------------------------------------------- entity extraction
\* Whether the regular expression 20\d{2} matches q at position i.
YearAt(q, i) ==
  /\ i + 3 <= Len(q)
  /\ q[i] = "2" /\ q[i + 1] = "0"
  /\ q[i + 2] \in Digits /\ q[i + 3] \in Digits

\* Whether a hyphen and two digits follow the four characters at i.
SuffixAt(q, i) ==
  /\ i + 6 <= Len(q)
  /\ q[i + 4] = "-"
  /\ q[i + 5] \in Digits /\ q[i + 6] \in Digits

\* Mutant: the pattern (20\d{2}(?:-\d{2})?), which takes the hyphenated
\* suffix into the match.
RECURSIVE findall_year_suffix(_, _)
findall_year_suffix(q, i) ==
  IF i > Len(q) THEN <<>>
  ELSE IF YearAt(q, i) /\ SuffixAt(q, i)
       THEN <<SubSeq(q, i, i + 6)>> \o findall_year_suffix(q, i + 7)
  ELSE IF YearAt(q, i)
       THEN <<SubSeq(q, i, i + 3)>> \o findall_year_suffix(q, i + 4)
  ELSE findall_year_suffix(q, i + 1)

\* re.findall(r"(20\d{2})", q) from position i on: the non-overlapping matches,
\* left to right.
RECURSIVE findall_year(_, _)
findall_year(q, i) ==
  IF i > Len(q) THEN <<>>
  ELSE IF YearAt(q, i)
       THEN <<SubSeq(q, i, i + 3)>> \o findall_year(q, i + 4)
  ELSE findall_year(q, i + 1)

\* Lines 168-169: the first match, or None.
YearQuery(q) ==
  LET year_match == findall_year(q, 1)
  IN  IF year_match # <<>> THEN year_match[1] ELSE None

\* df["DISTRICT"].unique(): the distinct names, in order of first occurrence.
RECURSIVE unique(_)
unique(df) ==
  IF df = <<>> THEN <<>>
  ELSE LET before == unique(SubSeq(df, 1, Len(df) - 1))
           d      == df[Len(df)].district
       IN  IF \E i \in 1..Len(before) : before[i] = d
           THEN before ELSE Append(before, d)

\* Lines 171-175: the first name of `names` that occurs in q, or None.
RECURSIVE MatchedDistrict(_, _)
MatchedDistrict(names, q) ==
  IF names = <<>> THEN None
  ELSE IF Contains(q, Head(names)) THEN Head(names)
  ELSE MatchedDistrict(Tail(names), q)

\* ------------------------------------------------------------ row selection
\* The positions 1..Len(df), the index of the DataFrame.
Positions(df) == [i \in 1..Len(df) |-> i]

Range(f) == {f[i] : i \in DOMAIN f}

\* Line 178: df[df["DISTRICT"] == matched_district], as positions of df.
df_district(df, matched_district) ==
  SelectSeq(Positions(df), LAMBDA p : df[p].district = matched_district)

\* Mutant: the year compared for equality instead of containment.
df_year_equal(df, idx, year_query) ==
  SelectSeq(idx, LAMBDA p : df[p].year = year_query)

\* Line 180: df_district[df_district["YEAR"].str.contains(year_query)].
df_year(df, idx, year_query) ==
  SelectSeq(idx, LAMBDA p : Contains(df[p].year, year_query))

\* .iloc[0] of a selection: its first position; none (IndexError) when empty.
iloc0(idx) == IF idx = <<>> THEN <<>> ELSE <<idx[1]>>

\* Mutant: line 181 without its fallback to the district's first row.
SelectYearRow_no_fallback(in_year, in_district) == iloc0(in_year)

\* Line 181: df_year.iloc[0] if not df_year.empty else df_district.iloc[0].
SelectYearRow(in_year, in_district) ==
  IF in_year # <<>> THEN iloc0(in_year) ELSE iloc0(in_district)

\* Mutant: ascending=True, the least year first.
sort_values_ascending_iloc0(df, idx) ==
  IF idx = <<>> THEN {<<>>}
  ELSE
  {<<p>> : p \in {r \in Range(idx) :
                    \A o \in Range(idx) : ~StrLess(df[o].year, df[r].year)}}

\* Line 183: sort_values("YEAR", ascending=False).iloc[0].  The sort compares
\* the year strings; which of several rows with the same greatest year comes
\* first is left to the sort.  The empty selection has no first row.
sort_values_iloc0(df, idx) ==
  IF idx = <<>> THEN {<<>>}
  ELSE {<<p>> : p \in {r \in Range(idx) :
                         \A o \in Range(idx) : ~StrLess(df[r].year, df[o].year)}}

\* index.search(query_vec, k=1): the position I[0][0] of the nearest stored
\* vector.  Which vector is nearest is the embedding model's affair: any of the
\* ntotal positions.
search(index) == 1..index.ntotal

\* ------------------------------------------------------------------ replies
UnavailableAnswer ==
  "Sorry, I can't access the data right now. Please check if the CSV file is in the correct location."

UnavailableUI ==
  "I am having trouble accessing the data. Please check the file path."

ModelUnavailableUI ==
  "I am having trouble loading the AI model. Please try again later."

Disclaimer == "Closest data I found:"

\* A reply: its leading fixed text, the row it prints (at most one) and the
\* category printed after the stage.
TextReply(text) == [text |-> text, row |-> <<>>, category |-> ""]

NoReply == TextReply("")

\* Mutant: the fallback reply without its leading disclaimer.
FormatFallback_plain(row) ==
  [text |-> "", row |-> <<row>>, category |-> stage_category(FloatValue(row.stage))]

\* Lines 185-191: the reply of a structured match.
FormatStructured(row) ==
  [text |-> "", row |-> <<row>>, category |-> stage_category(FloatValue(row.stage))]

\* Lines 197-204: the reply of the nearest-neighbour fallback.
FormatFallback(row) ==
  [text |-> Disclaimer, row |-> <<row>>,
   category |-> stage_category(FloatValue(row.stage))]

\* ------------------------------------------------------------------- answer
\* What one call of answer leaves: its return value or exception, its locals
\* and the calls it made to the embedding model and the index.
Outcome(result, exception, year_query, matched_district, row, calls) ==
  [result |-> result, exception |-> exception, year_query |-> year_query,
   matched_district |-> matched_district, row |-> row, calls |-> calls]

\* Lines 177-191, once the entities are extracted and a district matched.
Structured(df, q, year_query, matched_district) ==
  LET in_district == df_district(df, matched_district)
      rows == IF year_query # None
              THEN {SelectYearRow(df_year(df, in_district, year_query), in_district)}
              ELSE sort_values_iloc0(df, in_district)
  IN  {IF row = <<>>
       THEN Outcome(NoReply, "IndexError", year_query, matched_district, row, {})
       ELSE Outcome(FormatStructured(df[row[1]]), "none",
                    year_query, matched_district, row, {}) : row \in rows}

\* Lines 193-204.
Fallback(model, index, df, year_query, matched_district) ==
  IF model = "None"
  THEN {Outcome(NoReply, "AttributeError", year_query, matched_district, <<>>, {})}
  ELSE {IF I \in 1..Len(df)
        THEN Outcome(FormatFallback(df[I]), "none", year_query, matched_district,
                     <<I>>, {"encode", "search"})
        ELSE Outcome(NoReply, "IndexError", year_query, matched_district,
                     <<>>, {"encode", "search"}) : I \in search(index)}

\* answer(query, model, index, texts, df): the outcomes it may have.
answer(query, model, index, texts, df) ==
  IF df = <<>>
  THEN {Outcome(TextReply(UnavailableAnswer), "none", None, None, <<>>, {})}
  ELSE IF basic_chat(query) # NoBasic
  THEN {Outcome(TextReply(basic_chat(query)), "none", None, None, <<>>, {})}
  ELSE LET q == upper(query)
           year_query == YearQuery(q)
           matched_district == MatchedDistrict(unique(df), q)
       IN  IF Truthy(matched_district)
           THEN Structured(df, q, year_query, matched_district)
           ELSE Fallback(model, index, df, year_query, matched_district)

\* Mutant: the empty-table test left out of the bot response.
BotResponse_no_empty_test(user_query, model, index, texts, df_data) ==
  IF model # "None" /\ index.built
  THEN answer(user_query, model, index, texts, df_data)
  ELSE {Outcome(TextReply(ModelUnavailableUI), "none", None, None, <<>>, {})}

\* Lines 267-273: the bot response to one question.
BotResponse(user_query, model, index, texts, df_data) ==
  IF df_data = <<>>
  THEN {Outcome(TextReply(UnavailableUI), "none", None, None, <<>>, {})}
  ELSE IF model # "None" /\ index.built
  THEN answer(user_query, model, index, texts, df_data)
  ELSE {Outcome(TextReply(ModelUnavailableUI), "none", None, None, <<>>, {})}

\* ------------------------------------------------------------------ queries
\* The questions typed into the chat box.
Queries ==
  { <<"h","e","l","l","o">>,
    <<"h","o","w"," ","a","r","e"," ","y","o","u">>,
    <<"t","h","a","n","k","s">>,
    <<"d","e","l","h","i">>,
    <<"G","u","n","t","u","r">>,
    <<"g","u","n","t","u","r"," ","2","0","2","0","-","2","1">>,
    <<"p","u","r","i",","," ","g","u","n","t","u","r"," ","2","0","1","9">>,
    <<"n","e","l","l","o","r","e">>,
    <<"n","e","l","l","o","r","e"," ","2","0","2","0">> }

\* The texts given to stage_category besides numbers.
StageTexts ==
  { <<"7","0">>, <<"6","9",".","9">>, <<" ","9","0"," ">>, <<"1","0","0",".","0">>,
    <<"-","5">>, <<"a","b","c">>, <<>>, <<"9",".","9",".","9">>, <<"7","O">> }

StageInputs ==
  {FloatValue(v) : v \in (0 - 50)..MaxStage}
    \cup {NaNValue, NoneValue}
    \cup {StrValue(s) : s \in StageTexts}

\* -------------------------------------------------------------------- state
VARIABLES
  csv,             \* the CSV file on disk
  chat_open,       \* st.session_state.chat_open
  messages,        \* st.session_state.messages: <<role, message>> pairs
  cache_data,      \* the st.cache_data entry of load_data
  cache_resource,  \* the st.cache_resource entry of create_index
  exception,       \* the exception that ended the last script run, or "none"
  last,            \* the last question and what the bot response left
  stage_in,        \* the argument of a stage_category call
  stage_out        \* its return value, "" before the call

vars ==
  << csv, chat_open, messages, cache_data, cache_resource, exception, last,
     stage_in, stage_out >>

NotCached == [hit |-> FALSE, value |-> <<>>]

Cached(v) == [hit |-> TRUE, value |-> v]

\* No question asked yet.
NoCall ==
  [query |-> None] @@ Outcome(NoReply, "none", None, None, <<>>, {})

Init ==
  /\ csv \in CsvFiles
  /\ chat_open = FALSE
  /\ messages = <<>>
  /\ cache_data = NotCached
  /\ cache_resource = NotCached
  /\ exception = "none"
  /\ last = NoCall
  /\ stage_in = NoneValue
  /\ stage_out = ""

\* Lines 257-258 of a run of the chat page: load_data() and create_index(df),
\* each answered from its cache after its first return.  An exception is not
\* cached and ends the run.
Loaded ==
  IF cache_data.hit
  THEN [exception |-> "none", df |-> cache_data.value]
  ELSE load_data(csv)

RunLoad ==
  /\ cache_data' = IF Loaded.exception = "none" THEN Cached(Loaded.df) ELSE cache_data
  /\ cache_resource' =
       IF Loaded.exception # "none" THEN cache_resource
       ELSE IF cache_resource.hit THEN cache_resource
       ELSE Cached(create_index(Loaded.df))

\* Lines 238-240: the "Chat with AI" button, and the rerun that shows the chat
\* page.
OpenChat ==
  /\ ~chat_open
  /\ chat_open' = TRUE
  /\ RunLoad
  /\ exception' = Loaded.exception
  /\ UNCHANGED << csv, messages, last, stage_in, stage_out >>

\* Lines 247-249: the back button, and the rerun that shows the landing page.
CloseChat ==
  /\ chat_open
  /\ chat_open' = FALSE
  /\ exception' = "none"
  /\ UNCHANGED << csv, messages, cache_data, cache_resource, last, stage_in, stage_out >>

\* Lines 251-277: a question typed into the chat box.  The box is drawn only
\* by a run that got past lines 257-258.
Submit(user_query) ==
  /\ chat_open
  /\ exception = "none"
  /\ Len(messages) < 2 * MaxQueries
  /\ RunLoad
  /\ IF Loaded.exception # "none"
     THEN /\ exception' = Loaded.exception
          /\ UNCHANGED << messages, last >>
     ELSE \E out \in BotResponse(user_query,
                                 cache_resource'.value.model,
                                 cache_resource'.value.index,
                                 cache_resource'.value.texts,
                                 cache_resource'.value.df) :
            /\ exception' = out.exception
            /\ last' = [query |-> user_query] @@ out
            /\ messages' =
                 IF out.exception = "none"
                 THEN messages \o << <<"user", user_query>>,
                                     <<"assistant", out.result>> >>
                 ELSE Append(messages, <<"user", user_query>>)
  /\ UNCHANGED << csv, chat_open, stage_in, stage_out >>

Next ==
  \/ OpenChat
  \/ CloseChat
  \/ \E user_query \in Queries : Submit(user_query)

Spec == Init /\ [][Next]_vars

\* ------------------------------------------- stage_category on its own
InitStage ==
  /\ csv = [status |-> "missing", rows |-> <<>>]
  /\ chat_open = FALSE
  /\ messages = <<>>
  /\ cache_data = NotCached
  /\ cache_resource = NotCached
  /\ exception = "none"
  /\ last = NoCall
  /\ stage_in \in StageInputs
  /\ stage_out = ""

\* One call of stage_category.
Classify ==
  /\ stage_out = ""
  /\ stage_out' = stage_category(stage_in)
  /\ UNCHANGED << csv, chat_open, messages, cache_data, cache_resource,
                  exception, last, stage_in >>

NextStage == Classify

SpecStage == InitStage /\ [][NextStage]_vars

\* ------------------------------------------------------------- properties
\* The Record table of the session, once load_data has returned.
Table == IF cache_data.hit THEN cache_data.value ELSE <<>>

Asked == last.query # None

\* The last question got past the empty-table test and the conversational
\* check: entity extraction and row selection ran on it.
ReachedSelection ==
  Asked /\ Table # <<>> /\ basic_chat(last.query) = NoBasic

Min(S) == CHOOSE x \in S : \A y \in S : x <= y

\* Rows of the table whose district is d, and those among them whose year
\* contains y.
RowsOf(d) == {p \in 1..Len(Table) : Table[p].district = d}

RowsOfIn(d, y) == {p \in RowsOf(d) : Contains(Table[p].year, y)}

\* A district name of the table occurs in the upper-cased question.
SomeNameOccurs ==
  \E p \in 1..Len(Table) : Contains(upper(last.query), Table[p].district)

\* The reply is a structured match: a row, printed without the disclaimer.
StructuredReply == last.result.row # <<>> /\ last.result.text = ""

\* The reply is a nearest-neighbour fallback: a row under the disclaimer.
FallbackReply == last.result.row # <<>> /\ last.result.text = Disclaimer

\* C1: with a non-empty table, a question that reaches row selection selects
\* exactly one Record of the table (one position, and the reply prints the row
\* at that position), and no exception leaves answer().
C1_ExactlyOneRecord ==
  ReachedSelection =>
    /\ last.exception = "none"
    /\ Len(last.row) = 1
    /\ last.row[1] \in 1..Len(Table)
    /\ last.result.row = <<Table[last.row[1]]>>

\* C1 witness: a district is matched, a year token is extracted, no row of the
\* district carries it, and one Record is selected all the same.
C1_Witness ==
  /\ ReachedSelection
  /\ Truthy(last.matched_district)
  /\ last.year_query # None
  /\ RowsOfIn(last.matched_district, last.year_query) = {}
  /\ Len(last.row) = 1

\* C2: with a district matched and a year token extracted, the selected Record
\* is the first row of the district whose year contains the token, and the
\* first row of the district when none does.
C2_YearRowOrFirstOfDistrict ==
  (ReachedSelection /\ Truthy(last.matched_district) /\ last.year_query # None) =>
    LET ofDistrict == RowsOf(last.matched_district)
        inYear     == RowsOfIn(last.matched_district, last.year_query)
    IN  /\ ofDistrict # {}
        /\ last.row = <<IF inYear # {} THEN Min(inYear) ELSE Min(ofDistrict)>>

\* C2 witness: the year token is a proper substring of the selected row's year
\* and that row is not the district's first.
C2_Witness ==
  /\ ReachedSelection
  /\ Truthy(last.matched_district)
  /\ last.year_query # None
  /\ Len(last.row) = 1
  /\ last.row[1] # Min(RowsOf(last.matched_district))
  /\ Table[last.row[1]].year # last.year_query
  /\ Contains(Table[last.row[1]].year, last.year_query)

\* C3: with a district matched and no year token, the selected Record is a row
\* of the district and no row of the district has a greater year string.
C3_GreatestYearOfDistrict ==
  (ReachedSelection /\ Truthy(last.matched_district) /\ last.year_query = None) =>
    /\ Len(last.row) = 1
    /\ last.row[1] \in RowsOf(last.matched_district)
    /\ \A p \in RowsOf(last.matched_district) :
         ~StrLess(Table[last.row[1]].year, Table[p].year)

\* C3 witness: the district has rows of three different years, the question
\* names no year, and the row selected is neither the district's first row nor
\* its last.
C3_Witness ==
  /\ ReachedSelection
  /\ Truthy(last.matched_district)
  /\ last.year_query = None
  /\ Len(last.row) = 1
  /\ Cardinality({Table[p].year : p \in RowsOf(last.matched_district)}) = 3
  /\ last.row[1] = 2

\* What the texts of StageTexts denote, in tenths, written out by hand; a text
\* that is no number has no entry.
TextDenotes ==
  { << <<"7","0">>, 700 >>, << <<"6","9",".","9">>, 699 >>,
    << <<" ","9","0"," ">>, 900 >>, << <<"1","0","0",".","0">>, 1000 >>,
    << <<"-","5">>, 0 - 50 >> }

\* The input of the stage_category call is a number, and which one.
IsNumber(x) ==
  \/ x.t = "float"
  \/ x.t = "str" /\ \E e \in TextDenotes : e[1] = x.s

NumberOf(x) ==
  IF x.t = "float" THEN x.v ELSE (CHOOSE e \in TextDenotes : e[1] = x.s)[2]

\* C4: stage_category returns one of the five categories for every input:
\* Safe on [0,70), Semi-Critical on [70,90), Critical on [90,100),
\* Over-Exploited on [100,oo), and Unknown exactly when the input is no number.
C4_StageCategory ==
  stage_out # "" =>
    /\ stage_out \in {"Safe", "Semi-Critical", "Critical", "Over-Exploited", "Unknown"}
    /\ (stage_out = "Unknown") <=> ~IsNumber(stage_in)
    /\ (IsNumber(stage_in) /\ ~stage_in.nan) =>
         LET v == NumberOf(stage_in)
         IN  /\ (0 <= v /\ v < 700) => stage_out = "Safe"
             /\ (700 <= v /\ v < 900) => stage_out = "Semi-Critical"
             /\ (900 <= v /\ v < 1000) => stage_out = "Critical"
             /\ (1000 <= v) => stage_out = "Over-Exploited"

\* C4 witness: the boundary value 70.0 has been classified, in the higher
\* category.
C4_Witness ==
  stage_in = FloatValue(700) /\ stage_out = "Semi-Critical"

\* C5: a question that matches a conversational category gets the canned
\* conversational reply, with no call to the embedding model or the index,
\* whatever the dataset is (empty or unavailable included).
C5_ConversationalFirst ==
  (Asked /\ basic_chat(last.query) # NoBasic) =>
    /\ last.result = TextReply(basic_chat(last.query))
    /\ last.calls = {}

\* C6 as stated: with a non-empty table, every question in which no district
\* name of the table occurs gets the fallback reply (the row at the position
\* the index search returned, under the disclaimer), and a structured reply
\* never carries the disclaimer.
C6_EveryUnmatchedQueryFallsBack ==
  (Asked /\ Table # <<>>) =>
    /\ ~SomeNameOccurs =>
         /\ FallbackReply
         /\ "search" \in last.calls
         /\ Len(last.row) = 1
         /\ last.result.row = <<Table[last.row[1]]>>
    /\ Truthy(last.matched_district) => StructuredReply

\* C6 amended: the same of every question that the conversational check does
\* not answer.
C6_UnmatchedQueryFallsBack ==
  ReachedSelection =>
    /\ ~SomeNameOccurs =>
         /\ FallbackReply
         /\ "search" \in last.calls
         /\ Len(last.row) = 1
         /\ last.result.row = <<Table[last.row[1]]>>
    /\ Truthy(last.matched_district) => StructuredReply

\* C6 witness: a question naming an unknown district and no year was answered
\* from the index, with a row that is not the table's first.
C6_Witness ==
  /\ ReachedSelection
  /\ ~SomeNameOccurs
  /\ last.year_query = None
  /\ FallbackReply
  /\ last.row = <<2>>

\* The data-unavailable messages: the chat page's and answer()'s own.
DataUnavailable(reply) ==
  reply \in {TextReply(UnavailableUI), TextReply(UnavailableAnswer)}

\* C7: with an empty Record table create_index builds no model and no index,
\* and every question the conversational check does not match gets a
\* data-unavailable message, with no call to the model or the index and no
\* exception.
C7_EmptyTableUnavailable ==
  (cache_data.hit /\ cache_data.value = <<>>) =>
    /\ cache_resource.hit
    /\ cache_resource.value.model = "None"
    /\ ~cache_resource.value.index.built
    /\ exception = "none"
    /\ (Asked /\ basic_chat(last.query) = NoBasic) =>
         /\ DataUnavailable(last.result)
         /\ last.calls = {}
         /\ last.exception = "none"

\* C7 witness: the file parses and holds no data row, and a question that is
\* no greeting has been answered.
C7_Witness ==
  /\ csv.status = "ok" /\ csv.rows = <<>>
  /\ cache_data.hit
  /\ Asked /\ basic_chat(last.query) = NoBasic
  /\ DataUnavailable(last.result)

\* C8: a dataset file that is missing or cannot be parsed leaves the empty
\* Record table and no exception, and every question then gets a
\* data-unavailable message.
C8_LoadFailureDegrades ==
  csv.status \in {"missing", "unparseable"} =>
    /\ exception = "none"
    /\ chat_open => (cache_data.hit /\ cache_data.value = <<>>)
    /\ Asked => DataUnavailable(last.result)

\* The first position of q where 20\d{2} matches, 0 when there is none.
FirstYearAt(q) ==
  IF \E i \in 1..Len(q) : YearAt(q, i)
  THEN Min({i \in 1..Len(q) : YearAt(q, i)})
  ELSE 0

\* C9 as stated: the year token is the leftmost 20dd of the upper-cased
\* question together with the hyphen and two digits that follow it, when they
\* do; None without a 20dd.
C9_YearTokenWithSuffix ==
  ReachedSelection =>
    LET q == upper(last.query)
        i == FirstYearAt(q)
    IN  last.year_query =
          IF i = 0 THEN None
          ELSE IF SuffixAt(q, i) THEN SubSeq(q, i, i + 6)
          ELSE SubSeq(q, i, i + 3)

\* C9 amended: the year token is the leftmost 20dd of the upper-cased
\* question, four characters and no more; None without a 20dd.
C9_YearTokenFourDigits ==
  ReachedSelection =>
    LET q == upper(last.query)
        i == FirstYearAt(q)
    IN  last.year_query = IF i = 0 THEN None ELSE SubSeq(q, i, i + 3)

\* C9 witness: a question with "2020-21" in it left the token "2020".
C9_Witness ==
  /\ ReachedSelection
  /\ Contains(last.query, <<"2","0","2","0","-","2","1">>)
  /\ last.year_query = <<"2","0","2","0">>

\* The district names of the table that occur in the upper-cased question, as
\* positions of their first rows.
OccurringNames ==
  {p \in 1..Len(Table) :
     /\ Contains(upper(last.query), Table[p].district)
     /\ \A o \in 1..(p - 1) : Table[o].district # Table[p].district}

\* C10: the structured path is taken if and only if a district name of the
\* table occurs in the upper-cased question, and the district matched is then
\* the occurring name that comes first in the table.
C10_DistrictMatchedIff ==
  ReachedSelection =>
    /\ StructuredReply <=> OccurringNames # {}
    /\ StructuredReply =>
         /\ last.matched_district = Table[Min(OccurringNames)].district
         /\ last.result.row[1].district = last.matched_district

====
